---- MODULE Spec2Model ----
(***************************************************************************)
(* Real-Time Jutsu Recognition System: the chakra economy                  *)
(* (modules/chakra_system.py), the effect list of the jutsu engine         *)
(* (modules/jutsu_engine.py) and the hold-to-activate logic of the main    *)
(* loop (main.py).                                                         *)
(*                                                                         *)
(* Units.  TLA+ has integers only, so every quantity is kept in the        *)
(* smallest unit the program's constants need:                             *)
(*   - chakra amounts are in half points (regen_rate 0.5 is 1, the cost    *)
(*     30 of "Fist" is 60, max_chakra 100 is 200);                         *)
(*   - times are in quarters of a second (gesture_hold_duration 0.5 is 2,  *)
(*     the cooldown 2.0 of "Fist" is 8, effect_duration 1.5 is 6).         *)
(* time.time() is the variable now: every call of it in the code is a      *)
(* read that returns a value no smaller than the read before it.           *)
(***************************************************************************)
EXTENDS Integers, Sequences, FiniteSets, TLC

VARIABLES
    now,                \* the value of the last time.time() read
    max_chakra,         \* ChakraSystem.max_chakra
    regen_rate,         \* ChakraSystem.regen_rate
    current_chakra,     \* ChakraSystem.current_chakra
    cooldowns,          \* ChakraSystem.cooldowns: dict jutsu_name -> end time
    last_gesture,       \* JutsuRecognitionApp.last_gesture
    gesture_start_time, \* JutsuRecognitionApp.gesture_start_time
    last_jutsu,         \* JutsuRecognitionApp.last_jutsu
    paused,             \* JutsuRecognitionApp.paused
    prev_time,          \* JutsuRecognitionApp.prev_time
    active_effects,     \* JutsuEngine.active_effects
    pc,                 \* where run() is: "running", "done", "crashed"
    released,           \* cleanup() has released the capture and the tracker
    obs_label,          \* history: the label the classifier gave on the last
                        \* unpaused tick
    obs_since,          \* history: the time of the first tick of the unbroken
                        \* run of ticks that gave obs_label
    switch_time,        \* history: the time of the last tick whose label
                        \* differed from the held one
    cycle,              \* history: the last confirmation and what the ticks
                        \* since have observed (see CycleNone)
    activated_at,       \* history: dict jutsu_name -> the time its last
                        \* successful use_jutsu started the cooldown, since
                        \* the last reset
    ev                  \* history: the last call or tick and what it did

chakra_vars == <<max_chakra, regen_rate, current_chakra, cooldowns>>
app_vars == <<last_gesture, gesture_start_time, last_jutsu, paused, prev_time,
              active_effects, pc, released, obs_label, obs_since, switch_time,
              cycle>>
vars == <<now, chakra_vars, app_vars, activated_at, ev>>

-----------------------------------------------------------------------------
(* Bounds of the model *)

\* the first clock value (time.time() is positive: seconds since the epoch)
Epoch == 1
\* the clock is not read past this value by the calls of ChakraSpec
MaxTime == 11
\* the clock is not read past this value by the ticks of the main loop
MaxTickTime == 8
\* the most the clock advances between two calls
MaxStep == 3
\* the most the clock advances between two reads inside one call
MaxDrift == 1
\* activate_jutsu is not called with this many effects in the list
MaxEffects == 2

-----------------------------------------------------------------------------
(* ChakraSystem: the tables *)

\* Python's None for a value that is otherwise a number: the empty tuple;
\* a number t is kept as <<t>>
None == <<>>

\* an action id that has no registered cost
Unregistered == "Unknown"

jutsu_costs ==
    [a \in {"Fist", "Open Palm", "Peace Sign", "Thumbs Up", "Rock Sign",
            "Gun Sign", "Three Fingers", "Point"} |->
        CASE a = "Fist" -> 60
          [] a = "Open Palm" -> 50
          [] a = "Peace Sign" -> 80
          [] a = "Thumbs Up" -> 40
          [] a = "Rock Sign" -> 70
          [] a = "Gun Sign" -> 60
          [] a = "Three Fingers" -> 50
          [] a = "Point" -> 30]

cooldown_durations ==
    [a \in {"Fist", "Open Palm", "Peace Sign", "Thumbs Up", "Rock Sign",
            "Gun Sign", "Three Fingers", "Point"} |->
        CASE a = "Fist" -> 8
          [] a = "Open Palm" -> 12
          [] a = "Peace Sign" -> 16
          [] a = "Thumbs Up" -> 8
          [] a = "Rock Sign" -> 14
          [] a = "Gun Sign" -> 10
          [] a = "Three Fingers" -> 8
          [] a = "Point" -> 6]

\* cooldown_durations.get(jutsu_name, 2.0)
FallbackDuration == 8

cooldown_duration(jutsu_name) ==
    IF jutsu_name \in DOMAIN cooldown_durations
    THEN cooldown_durations[jutsu_name]
    ELSE FallbackDuration

\* the empty dict
EmptyDict == [a \in {} |-> 0]

\* d[k] = v on a dict
DictSet(d, k, v) == [a \in DOMAIN d \cup {k} |-> IF a = k THEN v ELSE d[a]]

-----------------------------------------------------------------------------
(* ChakraSystem: the methods, as functions of the fields they read and of   *)
(* the values their time.time() calls return                               *)

\* can_use_jutsu without its chakra check
can_use_jutsu_no_chakra_check(chakra, cds, jutsu_name, t) ==
    IF jutsu_name \notin DOMAIN jutsu_costs THEN FALSE
    ELSE IF jutsu_name \in DOMAIN cds /\ t < cds[jutsu_name] THEN FALSE
    ELSE TRUE

\* can_use_jutsu with the cooldown still blocking at its end time
can_use_jutsu_end_inclusive(chakra, cds, jutsu_name, t) ==
    IF jutsu_name \notin DOMAIN jutsu_costs THEN FALSE
    ELSE IF chakra < jutsu_costs[jutsu_name] THEN FALSE
    ELSE IF jutsu_name \in DOMAIN cds /\ t <= cds[jutsu_name] THEN FALSE
    ELSE TRUE

\* can_use_jutsu(jutsu_name), t the value of its time.time() call
can_use_jutsu(chakra, cds, jutsu_name, t) ==
    IF jutsu_name \notin DOMAIN jutsu_costs THEN FALSE
    ELSE IF chakra < jutsu_costs[jutsu_name] THEN FALSE
    ELSE IF jutsu_name \in DOMAIN cds /\ t < cds[jutsu_name] THEN FALSE
    ELSE TRUE

\* use_jutsu consuming the chakra before it looks at the cooldown
use_jutsu_spend_first(chakra, cds, jutsu_name, t_check, t_set) ==
    IF jutsu_name \notin DOMAIN jutsu_costs
    THEN [ret |-> FALSE, current_chakra |-> chakra, cooldowns |-> cds]
    ELSE IF chakra < jutsu_costs[jutsu_name]
    THEN [ret |-> FALSE, current_chakra |-> chakra, cooldowns |-> cds]
    ELSE IF ~can_use_jutsu(chakra, cds, jutsu_name, t_check)
    THEN [ret |-> FALSE,
          current_chakra |-> chakra - jutsu_costs[jutsu_name],
          cooldowns |-> cds]
    ELSE [ret |-> TRUE,
          current_chakra |-> chakra - jutsu_costs[jutsu_name],
          cooldowns |-> DictSet(cds, jutsu_name,
                                t_set + cooldown_duration(jutsu_name))]

\* use_jutsu storing the time of use instead of the end of the cooldown
use_jutsu_no_duration(chakra, cds, jutsu_name, t_check, t_set) ==
    IF ~can_use_jutsu(chakra, cds, jutsu_name, t_check)
    THEN [ret |-> FALSE, current_chakra |-> chakra, cooldowns |-> cds]
    ELSE [ret |-> TRUE,
          current_chakra |-> chakra - jutsu_costs[jutsu_name],
          cooldowns |-> DictSet(cds, jutsu_name, t_set)]

\* use_jutsu refusing to spend the last of the chakra
use_jutsu_strict_cost(chakra, cds, jutsu_name, t_check, t_set) ==
    IF ~can_use_jutsu(chakra, cds, jutsu_name, t_check)
       \/ chakra = jutsu_costs[jutsu_name]
    THEN [ret |-> FALSE, current_chakra |-> chakra, cooldowns |-> cds]
    ELSE [ret |-> TRUE,
          current_chakra |-> chakra - jutsu_costs[jutsu_name],
          cooldowns |-> DictSet(cds, jutsu_name,
                                t_set + cooldown_duration(jutsu_name))]

\* use_jutsu(jutsu_name): t_check is the value of the time.time() call of its
\* can_use_jutsu, t_set that of the call that starts the cooldown
use_jutsu(chakra, cds, jutsu_name, t_check, t_set) ==
    IF ~can_use_jutsu(chakra, cds, jutsu_name, t_check)
    THEN [ret |-> FALSE, current_chakra |-> chakra, cooldowns |-> cds]
    ELSE [ret |-> TRUE,
          current_chakra |-> chakra - jutsu_costs[jutsu_name],
          cooldowns |-> DictSet(cds, jutsu_name,
                                t_set + cooldown_duration(jutsu_name))]

Min(a, b) == IF a <= b THEN a ELSE b
Max(a, b) == IF a >= b THEN a ELSE b

\* regenerate without the min
regenerate_unclamped(chakra, maxc, rate) ==
    IF chakra < maxc THEN chakra + rate ELSE chakra

\* regenerate leaving the level as it is
regenerate_never(chakra, maxc, rate) == chakra

\* regenerate()
regenerate(chakra, maxc, rate) ==
    IF chakra < maxc THEN Min(maxc, chakra + rate) ELSE chakra

\* get_cooldown_remaining without the max
get_cooldown_remaining_signed(cds, jutsu_name, t) ==
    IF jutsu_name \notin DOMAIN cds THEN 0
    ELSE cds[jutsu_name] - t

\* get_cooldown_remaining(jutsu_name), t the value of its time.time() call
get_cooldown_remaining(cds, jutsu_name, t) ==
    IF jutsu_name \notin DOMAIN cds THEN 0
    ELSE Max(0, cds[jutsu_name] - t)

\* reset without cooldowns.clear()
reset_level_only(maxc, cds) == [current_chakra |-> maxc, cooldowns |-> cds]

\* reset()
reset(maxc, cds) == [current_chakra |-> maxc, cooldowns |-> EmptyDict]

\* get_chakra_percentage(): (current_chakra / max_chakra) * 100, kept as the
\* exact fraction num / den
get_chakra_percentage(chakra, maxc) == [num |-> chakra * 100, den |-> maxc]

-----------------------------------------------------------------------------
(* The state after construction *)

\* Python's None for a label
NoGesture == "None"

\* d.get(k): None, or <<d[k]>>
DictGet(d, k) == IF k \in DOMAIN d THEN <<d[k]>> ELSE None

\* what ev holds when nothing has been called yet.  t_check, t_set and t_pg
\* are clock reads; can is what the can_use_jutsu call of an activation
\* attempt returned, remaining what get_cooldown_remaining returned; pre_level, pre_end and pre_count are the chakra level,
\* the cooldown entry of name and the number of cooldown entries before a
\* call of a ChakraSystem method; the others tell what a tick of the main
\* loop did: name is the label it was given, called whether process_gesture
\* was called, switched whether the label differed from the held one, early
\* whether it did so while a hold shorter than the threshold was running
EvNone ==
    [op |-> "init", name |-> NoGesture, ret |-> FALSE, t_check |-> 0,
     t_set |-> 0, t_pg |-> 0, called |-> FALSE, confirmed |-> FALSE,
     switched |-> FALSE, early |-> FALSE, activated |-> FALSE, key |-> "none",
     pre_level |-> 0, pre_end |-> None, pre_count |-> 0, can |-> FALSE,
     remaining |-> 0]

\* ev for a call op(name) made in the current state
EvCall(op, name) ==
    [EvNone EXCEPT !.op = op, !.name = name,
                   !.pre_level = current_chakra,
                   !.pre_end = DictGet(cooldowns, name),
                   !.pre_count = Cardinality(DOMAIN cooldowns)]

\* what cycle holds when no confirmation is being followed.  Otherwise label
\* is the label last confirmed and phase tells what the unpaused ticks have
\* observed since: "confirmed" that label on every tick; "released" then no
\* hand or "Unknown" on one or more ticks; "reapplied" then that label again
\* on every tick.  ok tells whether that confirmation's use_jutsu returned
\* true.  since is the time process_gesture read on the confirming tick
\* ("confirmed") or the last clock read of the first tick that observed the
\* label again ("reapplied").  A tick that observes another label ends the
\* following.
CycleNone == [label |-> NoGesture, phase |-> "none", ok |-> FALSE, since |-> 0]

\* cycle after an unpaused tick that observed gesture, read the clock last at
\* t_end and, if confirmed, confirmed gesture with the hold time read at t_pg
\* and use_jutsu returning activated
CycleAfter(gesture, confirmed, activated, t_pg, t_end) ==
    IF confirmed
    THEN [label |-> gesture, phase |-> "confirmed", ok |-> activated,
          since |-> t_pg]
    ELSE IF cycle.phase = "none" THEN cycle
    ELSE IF gesture = cycle.label
    THEN IF cycle.phase = "released"
         THEN [cycle EXCEPT !.phase = "reapplied", !.since = t_end]
         ELSE cycle
    ELSE IF gesture = NoGesture \/ gesture = "Unknown"
    THEN [cycle EXCEPT !.phase = "released", !.since = 0]
    ELSE CycleNone

\* JutsuRecognitionApp.__init__ apart from the ChakraSystem
AppInit ==
    /\ now = Epoch
    /\ last_gesture = NoGesture
    /\ gesture_start_time = None
    /\ last_jutsu = NoGesture
    /\ paused = FALSE
    /\ prev_time = Epoch
    /\ active_effects = <<>>
    /\ pc = "running"
    /\ released = FALSE
    /\ obs_label = NoGesture
    /\ obs_since = Epoch
    /\ switch_time = None
    /\ cycle = CycleNone
    /\ activated_at = EmptyDict
    /\ ev = EvNone

\* ChakraSystem.__init__(max_chakra, regen_rate)
ChakraInit(maxc, rate) ==
    /\ max_chakra = maxc
    /\ regen_rate = rate
    /\ current_chakra = maxc
    /\ cooldowns = EmptyDict

-----------------------------------------------------------------------------
(* The ChakraSystem on its own: any sequence of calls of its methods *)

\* the (max_chakra, regen_rate) a ChakraSystem is constructed with, in half
\* points: a pool of the application's capacity with a coarser regeneration,
\* a pool that two activations empty and whose regeneration does not divide
\* the capacity, and a pool smaller than the cost of "Fist" that does not
\* regenerate
Configs == {<<200, 25>>, <<90, 40>>, <<40, 0>>}

\* the action ids the calls are made with
Names == {"Fist", "Point", Unregistered}

\* the values a time.time() call can return after the clock read t
Reads(t, step) == t .. Min(t + step, MaxTime)

\* the same in the main loop
TickReadsAfter(t, step) == t .. Min(t + step, MaxTickTime)

CanUseJutsuCall(a) ==
    \E t \in Reads(now, MaxStep) :
        /\ now' = t
        /\ ev' = [EvCall("can_use_jutsu", a) EXCEPT
                     !.ret = can_use_jutsu(current_chakra, cooldowns, a, t),
                     !.t_check = t]
        /\ UNCHANGED <<chakra_vars, app_vars, activated_at>>

UseJutsuCall(a) ==
    \E t1 \in Reads(now, MaxStep) : \E t2 \in Reads(t1, MaxDrift) :
        LET r == use_jutsu(current_chakra, cooldowns, a, t1, t2) IN
        /\ current_chakra' = r.current_chakra
        /\ cooldowns' = r.cooldowns
        /\ now' = IF r.ret THEN t2 ELSE t1
        /\ activated_at' = IF r.ret THEN DictSet(activated_at, a, t2)
                           ELSE activated_at
        /\ ev' = [EvCall("use_jutsu", a) EXCEPT
                     !.ret = r.ret,
                     !.t_check = t1,
                     !.t_set = IF r.ret THEN t2 ELSE 0]
        /\ UNCHANGED <<max_chakra, regen_rate, app_vars>>

\* the activation attempt of process_gesture on its own: can_use_jutsu(a)
\* and, if it returned true, use_jutsu(a) right after it.  t1 is the clock
\* read of can_use_jutsu, t2 that of the can_use_jutsu inside use_jutsu, t3
\* that of the start of the cooldown.
ActivationAttempt(a) ==
    \E t1 \in Reads(now, MaxStep) :
        IF ~can_use_jutsu(current_chakra, cooldowns, a, t1)
        THEN /\ now' = t1
             /\ ev' = [EvCall("attempt", a) EXCEPT !.t_check = t1]
             /\ UNCHANGED <<chakra_vars, app_vars, activated_at>>
        ELSE \E t2 \in Reads(t1, MaxDrift) : \E t3 \in Reads(t2, MaxDrift) :
            LET r == use_jutsu(current_chakra, cooldowns, a, t2, t3) IN
            /\ current_chakra' = r.current_chakra
            /\ cooldowns' = r.cooldowns
            /\ now' = IF r.ret THEN t3 ELSE t2
            /\ activated_at' = IF r.ret THEN DictSet(activated_at, a, t3)
                               ELSE activated_at
            /\ ev' = [EvCall("attempt", a) EXCEPT
                         !.can = TRUE,
                         !.ret = r.ret,
                         !.t_check = t1,
                         !.t_set = IF r.ret THEN t3 ELSE 0]
            /\ UNCHANGED <<max_chakra, regen_rate, app_vars>>

GetCooldownRemainingCall(a) ==
    \E t \in Reads(now, MaxStep) :
        /\ now' = t
        /\ ev' = [EvCall("get_cooldown_remaining", a) EXCEPT
                     !.remaining = get_cooldown_remaining(cooldowns, a, t),
                     !.t_check = t]
        /\ UNCHANGED <<chakra_vars, app_vars, activated_at>>

RegenerateCall ==
    /\ current_chakra' = regenerate(current_chakra, max_chakra, regen_rate)
    /\ ev' = EvCall("regenerate", NoGesture)
    /\ UNCHANGED <<now, max_chakra, regen_rate, cooldowns, app_vars,
                   activated_at>>

ResetCall ==
    /\ current_chakra' = reset(max_chakra, cooldowns).current_chakra
    /\ cooldowns' = reset(max_chakra, cooldowns).cooldowns
    /\ activated_at' = EmptyDict
    /\ ev' = EvCall("reset", NoGesture)
    /\ UNCHANGED <<now, max_chakra, regen_rate, app_vars>>

ChakraInitAny ==
    /\ AppInit
    /\ \E c \in Configs : ChakraInit(c[1], c[2])

ChakraNext ==
    \/ \E a \in Names : CanUseJutsuCall(a)
    \/ \E a \in Names : UseJutsuCall(a)
    \/ \E a \in Names : ActivationAttempt(a)
    \/ \E a \in Names : GetCooldownRemainingCall(a)
    \/ RegenerateCall
    \/ ResetCall

ChakraSpec == ChakraInitAny /\ [][ChakraNext]_vars

\* the calls that write the chakra level: activations, the regenerate() of
\* the unpaused ticks, and resets
RegenNext ==
    \/ \E a \in Names : UseJutsuCall(a)
    \/ RegenerateCall
    \/ ResetCall

RegenSpec == ChakraInitAny /\ [][RegenNext]_vars

\* unpaused ticks keep occurring: regenerate() keeps being called
RegenLiveSpec == RegenSpec /\ WF_vars(RegenerateCall)

-----------------------------------------------------------------------------
(* The application: JutsuEngine's effect list and the main loop *)

\* jutsu_map with the entry of "Point" missing
jutsu_map_without_point ==
    [a \in {"Fist", "Open Palm", "Peace Sign", "Thumbs Up", "Rock Sign",
            "Gun Sign", "Three Fingers"} |->
        CASE a = "Fist" -> "Fire Style: Fireball Jutsu"
          [] a = "Open Palm" -> "Shadow Clone Jutsu"
          [] a = "Peace Sign" -> "Lightning Style: Chidori"
          [] a = "Thumbs Up" -> "Water Style: Water Dragon"
          [] a = "Rock Sign" -> "Earth Style: Rock Barrier"
          [] a = "Gun Sign" -> "Wind Style: Air Bullet"
          [] a = "Three Fingers" -> "Ice Style: Crystal Mirror"]

\* JutsuEngine.jutsu_map
jutsu_map ==
    [a \in {"Fist", "Open Palm", "Peace Sign", "Thumbs Up", "Rock Sign",
            "Gun Sign", "Three Fingers", "Point"} |->
        CASE a = "Fist" -> "Fire Style: Fireball Jutsu"
          [] a = "Open Palm" -> "Shadow Clone Jutsu"
          [] a = "Peace Sign" -> "Lightning Style: Chidori"
          [] a = "Thumbs Up" -> "Water Style: Water Dragon"
          [] a = "Rock Sign" -> "Earth Style: Rock Barrier"
          [] a = "Gun Sign" -> "Wind Style: Air Bullet"
          [] a = "Three Fingers" -> "Ice Style: Crystal Mirror"
          [] a = "Point" -> "Gentle Fist: Chakra Strike"]

\* JutsuEngine.effect_duration, 1.5 s
effect_duration == 6

\* JutsuRecognitionApp.gesture_hold_duration, 0.5 s
gesture_hold_duration == 2

\* ChakraSystem(max_chakra=100, regen_rate=0.5) of the application
AppMaxChakra == 200
AppRegenRate == 1

\* activate_jutsu(gesture), t the value of its time.time() call: the name
\* it returns and the effect list it leaves
activate_jutsu(effects, gesture, t) ==
    IF gesture \in DOMAIN jutsu_map
    THEN [name |-> jutsu_map[gesture],
          active_effects |->
              Append(effects, [name |-> jutsu_map[gesture], start_time |-> t])]
    ELSE [name |-> NoGesture, active_effects |-> effects]

\* update_effects removing an effect already at elapsed = effect_duration
update_effects_at_duration(effects, t) ==
    SelectSeq(effects, LAMBDA e : ~(t - e.start_time >= effect_duration))

\* update_effects(frame), t the value of its time.time() call: the effects
\* whose elapsed time exceeds effect_duration are removed, the others are
\* rendered and kept
update_effects(effects, t) ==
    SelectSeq(effects, LAMBDA e : ~(t - e.start_time > effect_duration))

\* the truth value Python gives gesture_start_time in "if
\* self.gesture_start_time:"
Truthy(start) == start # None /\ start[1] # 0

\* The time.time() calls of one tick, in the order the code makes them:
\* fps (calculate_fps), pg (process_gesture: the new hold's start or the
\* hold time), can (can_use_jutsu called by process_gesture), ucan
\* (can_use_jutsu called by use_jutsu), uset (use_jutsu starting the
\* cooldown), act (activate_jutsu), upd (update_effects).  The first returns
\* t0 and each one a value no smaller than the one before.  (The read of
\* get_cooldown_remaining in draw_ui only feeds the display.)
ClockReadsFrom(t0, pg) ==
    LET T == pg .. Min(t0 + MaxDrift, MaxTickTime) IN
    {r \in [fps : {t0}, pg : {pg}, can : T, ucan : T, uset : T, act : T,
            upd : T] :
        /\ r.can <= r.ucan
        /\ r.ucan <= r.uset
        /\ r.uset <= r.act
        /\ r.act <= r.upd}

\* the same when the tick makes none of the calls between pg and upd: the
\* reads that are not made are given the value of the last one made
ClockReadsSkipping(t0, pg) ==
    {[fps |-> t0, pg |-> pg, can |-> pg, ucan |-> pg, uset |-> pg,
      act |-> pg, upd |-> u] : u \in pg .. Min(t0 + MaxDrift, MaxTickTime)}

\* the reads of a tick that starts at t0 and is given gesture: pg is read
\* when process_gesture starts a hold or measures one, the reads from can
\* to act are made only when the hold has reached the threshold
TickReads(t0, gesture) ==
    IF gesture = NoGesture \/ gesture = "Unknown"
       \/ (gesture = last_gesture /\ gesture_start_time = None)
    THEN ClockReadsSkipping(t0, t0)
    ELSE UNION {
        IF gesture = last_gesture
           /\ pg - gesture_start_time[1] >= gesture_hold_duration
        THEN ClockReadsFrom(t0, pg)
        ELSE ClockReadsSkipping(t0, pg) : pg \in TickReadsAfter(t0, MaxDrift)}

\* the fields process_gesture reads and writes
AppState ==
    [last_gesture |-> last_gesture,
     gesture_start_time |-> gesture_start_time,
     last_jutsu |-> last_jutsu,
     current_chakra |-> current_chakra,
     cooldowns |-> cooldowns,
     active_effects |-> active_effects,
     confirmed |-> FALSE,
     activated |-> FALSE]

\* process_gesture forgetting to restart the timer when the label changes
process_gesture_keep_timer(st, gesture, r) ==
    IF gesture = "Unknown" \/ gesture = NoGesture
    THEN [st EXCEPT !.last_gesture = NoGesture, !.gesture_start_time = None]
    ELSE IF gesture # st.last_gesture
    THEN [st EXCEPT !.last_gesture = gesture,
                    !.gesture_start_time =
                        IF st.gesture_start_time = None THEN <<r.pg>>
                        ELSE st.gesture_start_time]
    ELSE IF Truthy(st.gesture_start_time)
            /\ r.pg - st.gesture_start_time[1] >= gesture_hold_duration
    THEN LET can == can_use_jutsu(st.current_chakra, st.cooldowns, gesture,
                                  r.can)
             u == use_jutsu(st.current_chakra, st.cooldowns, gesture,
                            r.ucan, r.uset)
             act == activate_jutsu(st.active_effects, gesture, r.act)
         IN IF can /\ u.ret
            THEN [st EXCEPT !.gesture_start_time = None,
                            !.current_chakra = u.current_chakra,
                            !.cooldowns = u.cooldowns,
                            !.active_effects = act.active_effects,
                            !.last_jutsu = IF act.name # NoGesture
                                           THEN act.name ELSE @,
                            !.confirmed = TRUE,
                            !.activated = TRUE]
            ELSE [st EXCEPT !.gesture_start_time = None,
                            !.confirmed = TRUE]
    ELSE st

\* process_gesture comparing the hold time with > instead of >=
process_gesture_strict(st, gesture, r) ==
    IF gesture = "Unknown" \/ gesture = NoGesture
    THEN [st EXCEPT !.last_gesture = NoGesture, !.gesture_start_time = None]
    ELSE IF gesture # st.last_gesture
    THEN [st EXCEPT !.last_gesture = gesture, !.gesture_start_time = <<r.pg>>]
    ELSE IF Truthy(st.gesture_start_time)
            /\ r.pg - st.gesture_start_time[1] > gesture_hold_duration
    THEN LET can == can_use_jutsu(st.current_chakra, st.cooldowns, gesture,
                                  r.can)
             u == use_jutsu(st.current_chakra, st.cooldowns, gesture,
                            r.ucan, r.uset)
             act == activate_jutsu(st.active_effects, gesture, r.act)
         IN IF can /\ u.ret
            THEN [st EXCEPT !.gesture_start_time = None,
                            !.current_chakra = u.current_chakra,
                            !.cooldowns = u.cooldowns,
                            !.active_effects = act.active_effects,
                            !.last_jutsu = IF act.name # NoGesture
                                           THEN act.name ELSE @,
                            !.confirmed = TRUE,
                            !.activated = TRUE]
            ELSE [st EXCEPT !.gesture_start_time = None,
                            !.confirmed = TRUE]
    ELSE st

\* process_gesture restarting the timer after a confirmation instead of
\* clearing it
process_gesture_rearm(st, gesture, r) ==
    IF gesture = "Unknown" \/ gesture = NoGesture
    THEN [st EXCEPT !.last_gesture = NoGesture, !.gesture_start_time = None]
    ELSE IF gesture # st.last_gesture
    THEN [st EXCEPT !.last_gesture = gesture, !.gesture_start_time = <<r.pg>>]
    ELSE IF Truthy(st.gesture_start_time)
            /\ r.pg - st.gesture_start_time[1] >= gesture_hold_duration
    THEN LET can == can_use_jutsu(st.current_chakra, st.cooldowns, gesture,
                                  r.can)
             u == use_jutsu(st.current_chakra, st.cooldowns, gesture,
                            r.ucan, r.uset)
             act == activate_jutsu(st.active_effects, gesture, r.act)
         IN IF can /\ u.ret
            THEN [st EXCEPT !.gesture_start_time = <<r.pg>>,
                            !.current_chakra = u.current_chakra,
                            !.cooldowns = u.cooldowns,
                            !.active_effects = act.active_effects,
                            !.last_jutsu = IF act.name # NoGesture
                                           THEN act.name ELSE @,
                            !.confirmed = TRUE,
                            !.activated = TRUE]
            ELSE [st EXCEPT !.gesture_start_time = <<r.pg>>,
                            !.confirmed = TRUE]
    ELSE st

\* process_gesture clearing last_gesture together with the timer after a
\* confirmation
process_gesture_clear_both(st, gesture, r) ==
    IF gesture = "Unknown" \/ gesture = NoGesture
    THEN [st EXCEPT !.last_gesture = NoGesture, !.gesture_start_time = None]
    ELSE IF gesture # st.last_gesture
    THEN [st EXCEPT !.last_gesture = gesture, !.gesture_start_time = <<r.pg>>]
    ELSE IF Truthy(st.gesture_start_time)
            /\ r.pg - st.gesture_start_time[1] >= gesture_hold_duration
    THEN LET can == can_use_jutsu(st.current_chakra, st.cooldowns, gesture,
                                  r.can)
             u == use_jutsu(st.current_chakra, st.cooldowns, gesture,
                            r.ucan, r.uset)
             act == activate_jutsu(st.active_effects, gesture, r.act)
         IN IF can /\ u.ret
            THEN [st EXCEPT !.last_gesture = NoGesture,
                            !.gesture_start_time = None,
                            !.current_chakra = u.current_chakra,
                            !.cooldowns = u.cooldowns,
                            !.active_effects = act.active_effects,
                            !.last_jutsu = IF act.name # NoGesture
                                           THEN act.name ELSE @,
                            !.confirmed = TRUE,
                            !.activated = TRUE]
            ELSE [st EXCEPT !.last_gesture = NoGesture,
                            !.gesture_start_time = None,
                            !.confirmed = TRUE]
    ELSE st

\* process_gesture clearing the timer only when the activation succeeded
process_gesture_retry(st, gesture, r) ==
    IF gesture = "Unknown" \/ gesture = NoGesture
    THEN [st EXCEPT !.last_gesture = NoGesture, !.gesture_start_time = None]
    ELSE IF gesture # st.last_gesture
    THEN [st EXCEPT !.last_gesture = gesture, !.gesture_start_time = <<r.pg>>]
    ELSE IF Truthy(st.gesture_start_time)
            /\ r.pg - st.gesture_start_time[1] >= gesture_hold_duration
    THEN LET can == can_use_jutsu(st.current_chakra, st.cooldowns, gesture,
                                  r.can)
             u == use_jutsu(st.current_chakra, st.cooldowns, gesture,
                            r.ucan, r.uset)
             act == activate_jutsu(st.active_effects, gesture, r.act)
         IN IF can /\ u.ret
            THEN [st EXCEPT !.gesture_start_time = None,
                            !.current_chakra = u.current_chakra,
                            !.cooldowns = u.cooldowns,
                            !.active_effects = act.active_effects,
                            !.last_jutsu = IF act.name # NoGesture
                                           THEN act.name ELSE @,
                            !.confirmed = TRUE,
                            !.activated = TRUE]
            ELSE [st EXCEPT !.confirmed = TRUE]
    ELSE st

\* process_gesture(gesture) on the fields st, r the values of the tick's
\* time.time() calls.  confirmed: the hold reached gesture_hold_duration and
\* the activation was attempted (can_use_jutsu was asked); activated:
\* use_jutsu returned true.
process_gesture(st, gesture, r) ==
    IF gesture = "Unknown" \/ gesture = NoGesture
    THEN [st EXCEPT !.last_gesture = NoGesture, !.gesture_start_time = None]
    ELSE IF gesture # st.last_gesture
    THEN [st EXCEPT !.last_gesture = gesture, !.gesture_start_time = <<r.pg>>]
    ELSE IF Truthy(st.gesture_start_time)
            /\ r.pg - st.gesture_start_time[1] >= gesture_hold_duration
    THEN LET can == can_use_jutsu(st.current_chakra, st.cooldowns, gesture,
                                  r.can)
             u == use_jutsu(st.current_chakra, st.cooldowns, gesture,
                            r.ucan, r.uset)
             act == activate_jutsu(st.active_effects, gesture, r.act)
         IN IF can /\ u.ret
            THEN [st EXCEPT !.gesture_start_time = None,
                            !.current_chakra = u.current_chakra,
                            !.cooldowns = u.cooldowns,
                            !.active_effects = act.active_effects,
                            !.last_jutsu = IF act.name # NoGesture
                                           THEN act.name ELSE @,
                            !.confirmed = TRUE,
                            !.activated = TRUE]
            ELSE [st EXCEPT !.gesture_start_time = None,
                            !.confirmed = TRUE]
    ELSE st

\* what get_gesture returns: a recognised label, "Unknown" for a hand in no
\* recognised pose, None for no hand
Labels == {"Fist", "Point", "Unknown", NoGesture}

\* cv2.waitKey(1) & 0xFF: q (or ESC), r, p, or no key of interest
Keys == {"none", "q", "r", "p"}

\* the body of "if not self.paused:" in run(): get_gesture returned
\* gesture; process_gesture is called only if gesture is truthy
UnpausedBody(gesture, r) ==
    IF gesture # NoGesture THEN process_gesture(AppState, gesture, r)
    ELSE AppState

\* the key handling at the end of a tick, new_chakra and new_cooldowns being
\* the ChakraSystem's fields at that point
HandleKey(key, new_chakra, new_cooldowns) ==
    /\ pc' = IF key = "q" THEN "done" ELSE "running"
    /\ released' = (key = "q")
    /\ paused' = IF key = "p" THEN ~paused ELSE paused
    /\ current_chakra' = IF key = "r"
                         THEN reset(max_chakra, new_cooldowns).current_chakra
                         ELSE new_chakra
    /\ cooldowns' = IF key = "r"
                    THEN reset(max_chakra, new_cooldowns).cooldowns
                    ELSE new_cooldowns

\* cap.read() fails: run() leaves the loop and cleanup() releases
FrameReadFails ==
    /\ pc = "running"
    /\ pc' = "done"
    /\ released' = TRUE
    /\ ev' = [EvNone EXCEPT !.op = "read_fail"]
    /\ UNCHANGED <<now, chakra_vars, last_gesture, gesture_start_time,
                   last_jutsu, paused, prev_time, active_effects, obs_label,
                   obs_since, switch_time, cycle, activated_at>>

\* calculate_fps() divides by current_time - prev_time: when the clock has
\* not advanced since the last tick the ZeroDivisionError leaves run(), and
\* main() prints it; cleanup() is not reached
CalculateFpsRaises ==
    /\ pc = "running"
    /\ now = prev_time
    /\ pc' = "crashed"
    /\ ev' = [EvNone EXCEPT !.op = "raise"]
    /\ UNCHANGED <<now, chakra_vars, last_gesture, gesture_start_time,
                   last_jutsu, paused, prev_time, active_effects, released,
                   obs_label, obs_since, switch_time, cycle, activated_at>>

\* one iteration of the loop of run() with self.paused false
Tick(gesture, key) ==
    /\ pc = "running"
    /\ ~paused
    /\ \E t0 \in TickReadsAfter(now, MaxStep) : \E r \in TickReads(t0, gesture) :
        LET st == UnpausedBody(gesture, r)
            called == gesture # NoGesture
            switched == called /\ gesture # "Unknown" /\ gesture # last_gesture
            measured == called /\ gesture = last_gesture
                        /\ Truthy(gesture_start_time)
        IN
        /\ t0 # prev_time
        /\ prev_time' = t0
        /\ now' = r.upd
        /\ last_gesture' = st.last_gesture
        /\ gesture_start_time' = st.gesture_start_time
        /\ last_jutsu' = st.last_jutsu
        /\ active_effects' = update_effects(st.active_effects, r.upd)
        /\ HandleKey(key,
                     regenerate(st.current_chakra, max_chakra, regen_rate),
                     st.cooldowns)
        /\ obs_label' = gesture
        /\ obs_since' = IF gesture = obs_label THEN obs_since ELSE t0
        /\ switch_time' = IF switched THEN <<r.pg>> ELSE switch_time
        /\ cycle' = CycleAfter(gesture, st.confirmed, st.activated, r.pg,
                             r.upd)
        /\ activated_at' = IF key = "r" THEN EmptyDict
                           ELSE IF st.activated
                           THEN DictSet(activated_at, gesture, r.uset)
                           ELSE activated_at
        /\ ev' = [EvNone EXCEPT
                     !.op = "tick",
                     !.name = gesture,
                     !.called = called,
                     !.switched = switched,
                     !.early = /\ switched
                               /\ last_gesture # NoGesture
                               /\ gesture_start_time # None
                               /\ r.pg - gesture_start_time[1]
                                      < gesture_hold_duration,
                     !.t_pg = IF switched \/ measured THEN r.pg ELSE 0,
                     !.confirmed = st.confirmed,
                     !.activated = st.activated,
                     !.ret = st.activated,
                     !.t_check = IF st.confirmed THEN r.can ELSE 0,
                     !.t_set = IF st.activated THEN r.uset ELSE 0,
                     !.key = key]
        /\ UNCHANGED <<max_chakra, regen_rate>>

\* a paused iteration that runs regenerate() all the same
PausedTick_regenerating(key) ==
    /\ pc = "running"
    /\ paused
    /\ \E t0 \in TickReadsAfter(now, MaxStep) :
        /\ t0 # prev_time
        /\ prev_time' = t0
        /\ now' = t0
        /\ HandleKey(key,
                     regenerate(current_chakra, max_chakra, regen_rate),
                     cooldowns)
        /\ activated_at' = IF key = "r" THEN EmptyDict ELSE activated_at
        /\ ev' = [EvNone EXCEPT !.op = "paused_tick", !.key = key]
        /\ UNCHANGED <<max_chakra, regen_rate, last_gesture,
                       gesture_start_time, last_jutsu, active_effects,
                       obs_label, obs_since, switch_time, cycle>>

\* one iteration of the loop of run() with self.paused true
PausedTick(key) ==
    /\ pc = "running"
    /\ paused
    /\ \E t0 \in TickReadsAfter(now, MaxStep) :
        /\ t0 # prev_time
        /\ prev_time' = t0
        /\ now' = t0
        /\ HandleKey(key, current_chakra, cooldowns)
        /\ activated_at' = IF key = "r" THEN EmptyDict ELSE activated_at
        /\ ev' = [EvNone EXCEPT !.op = "paused_tick", !.key = key]
        /\ UNCHANGED <<max_chakra, regen_rate, last_gesture,
                       gesture_start_time, last_jutsu, active_effects,
                       obs_label, obs_since, switch_time, cycle>>

Init ==
    /\ AppInit
    /\ ChakraInit(AppMaxChakra, AppRegenRate)

Next ==
    \/ \E gesture \in Labels, key \in Keys : Tick(gesture, key)
    \/ \E key \in Keys : PausedTick(key)
    \/ FrameReadFails
    \/ CalculateFpsRaises

Spec == Init /\ [][Next]_vars

-----------------------------------------------------------------------------
(* The JutsuEngine's effect list on its own: any sequence of activate_jutsu *)
(* and update_effects calls                                                *)

\* what the calls of the JutsuEngine leave alone
engine_frame ==
    <<chakra_vars, last_gesture, gesture_start_time, last_jutsu, paused,
      prev_time, pc, released, obs_label, obs_since, switch_time, cycle,
      activated_at>>

\* ev of a JutsuEngine call: pre_count is the number of effects before it
EvEngine(op, name, t) ==
    [EvNone EXCEPT !.op = op, !.name = name, !.t_check = t,
                   !.pre_count = Len(active_effects)]

ActivateJutsuCall(gesture) ==
    /\ Len(active_effects) < MaxEffects
    /\ \E t \in Reads(now, MaxStep) :
        /\ now' = t
        /\ active_effects' =
               activate_jutsu(active_effects, gesture, t).active_effects
        /\ ev' = EvEngine("activate_jutsu", gesture, t)
    /\ UNCHANGED engine_frame

\* update_effects called at a clock value t
UpdateEffectsAt(t) ==
    /\ now' = t
    /\ active_effects' = update_effects(active_effects, t)
    /\ ev' = EvEngine("update_effects", NoGesture, t)
    /\ UNCHANGED engine_frame

UpdateEffectsCall == \E t \in Reads(now, MaxStep) : UpdateEffectsAt(t)

\* an update_effects call made after the clock has advanced
UpdateEffectsLater ==
    \E t \in Reads(now, MaxStep) : t > now /\ UpdateEffectsAt(t)

EngineNext ==
    \/ \E gesture \in {"Fist", "Point", "Unknown"} : ActivateJutsuCall(gesture)
    \/ UpdateEffectsCall

EngineSpec == Init /\ [][EngineNext]_vars

\* the calls of update_effects keep occurring, one per unpaused tick of the
\* main loop, and time passes between ticks (as long as the clock of the
\* model can advance)
EngineLiveSpec ==
    /\ EngineSpec
    /\ WF_vars(UpdateEffectsCall)
    /\ WF_vars(UpdateEffectsLater)

-----------------------------------------------------------------------------
(* Claims about the ChakraSystem, checked under ChakraSpec *)

\* a fraction [num, den] with den > 0 lies in [lo, hi]
FractionIn(f, lo, hi) == lo * f.den <= f.num /\ f.num <= hi * f.den

\* C1: in every state reachable from construction by use_jutsu, regenerate
\* and reset calls, 0 <= current_chakra <= max_chakra, and so
\* get_chakra_percentage() is in [0, 100]
C1_ChakraInRange ==
    /\ 0 <= current_chakra
    /\ current_chakra <= max_chakra
    /\ FractionIn(get_chakra_percentage(current_chakra, max_chakra), 0, 100)

\* C1: a successful use_jutsu has taken the level down to exactly 0
C1_Witness ==
    /\ ev.op = "use_jutsu"
    /\ ev.ret
    /\ ev.pre_level > 0
    /\ current_chakra = 0

\* the condition C2 gives for a success of a at time t
C2_Condition(chakra, cds, a, t) ==
    /\ a \in DOMAIN jutsu_costs
    /\ chakra >= jutsu_costs[a]
    /\ (a \notin DOMAIN cds \/ cds[a] <= t)

\* C2: use_jutsu(a) evaluated at time t returns true if and only if a has a
\* registered cost, current_chakra >= jutsu_costs[a], and a has no cooldown
\* entry or its cooldown end is <= t
C2_UseJutsuIff ==
    [][ev'.op = "use_jutsu" =>
         (ev'.ret <=>
            C2_Condition(current_chakra, cooldowns, ev'.name, ev'.t_check))]_vars

\* C2: an attempt made exactly at the cooldown end time has succeeded
C2_Witness ==
    /\ ev.op = "use_jutsu"
    /\ ev.ret
    /\ ev.pre_end = <<ev.t_check>>

\* C3 as claimed: a successful use_jutsu(a) decreases current_chakra by
\* exactly jutsu_costs[a], sets cooldowns[a] to exactly t + the duration of a,
\* t being the time value the cooldown check of that attempt was made
\* against, and leaves the other cooldown entries unchanged.  (An action
\* with no cooldown entry has no cooldown check: the only time value of such
\* an attempt is the one the cooldown starts at.)
C3_CooldownFromCheckTime ==
    [][(ev'.op = "use_jutsu" /\ ev'.ret) =>
         LET a == ev'.name
             t == IF a \in DOMAIN cooldowns THEN ev'.t_check ELSE ev'.t_set
         IN /\ current_chakra' = current_chakra - jutsu_costs[a]
            /\ cooldowns' = DictSet(cooldowns, a, t + cooldown_duration(a))]_vars

\* C4: a use_jutsu(a) call that returns false and any can_use_jutsu(a) call
\* leave current_chakra and the cooldowns table unchanged, whatever a is
C4_FailureChangesNothing ==
    [][((ev'.op = "use_jutsu" /\ ~ev'.ret) \/ ev'.op = "can_use_jutsu") =>
         (current_chakra' = current_chakra /\ cooldowns' = cooldowns)]_vars

\* C4: use_jutsu has returned false for an action whose cost exceeds
\* max_chakra
C4_Witness ==
    /\ ev.op = "use_jutsu"
    /\ ~ev.ret
    /\ ev.name \in DOMAIN jutsu_costs
    /\ jutsu_costs[ev.name] > max_chakra

\* C5: with no reset in between, an activation of a succeeds only when at
\* least cooldown_durations[a] has passed since its last successful
\* activation, whatever the chakra level: every earlier attempt fails
C5_CooldownBlocks ==
    [][(ev'.op = "use_jutsu" /\ ev'.ret /\ ev'.name \in DOMAIN activated_at) =>
         ev'.t_check - activated_at[ev'.name] >= cooldown_duration(ev'.name)]_vars

\* C5: an action has been activated a second time with no reset in between
C5_Witness ==
    /\ ev.op = "use_jutsu"
    /\ ev.ret
    /\ ev.pre_end # None

\* C6: regenerate() sets current_chakra to min(max_chakra, current_chakra +
\* regen_rate): never above max_chakra, a no-op at max_chakra, never a
\* decrease, and the cooldowns table is not touched
C6_Regenerate ==
    [][ev'.op = "regenerate" =>
         /\ current_chakra' = Min(max_chakra, current_chakra + regen_rate)
         /\ current_chakra' <= max_chakra
         /\ (current_chakra = max_chakra => current_chakra' = current_chakra)
         /\ current_chakra' >= current_chakra
         /\ cooldowns' = cooldowns]_vars

\* C6: regenerate has cut an addition that would have passed max_chakra,
\* with cooldown entries in the table
C6_Witness ==
    /\ ev.op = "regenerate"
    /\ ev.pre_level < max_chakra
    /\ ev.pre_level + regen_rate > max_chakra
    /\ current_chakra = max_chakra
    /\ ev.pre_count > 0

\* a reset() has just run: the call, or the reset key of the main loop
AfterReset == ev.op = "reset" \/ (ev.op = "tick" /\ ev.key = "r")

\* C7: right after reset(), current_chakra is max_chakra, the cooldowns
\* table is empty, get_chakra_percentage() is exactly 100,
\* get_cooldown_remaining(a) is 0 for every a, and every action with cost <=
\* max_chakra can be activated
C7_Reset ==
    AfterReset =>
        /\ current_chakra = max_chakra
        /\ cooldowns = EmptyDict
        /\ FractionIn(get_chakra_percentage(current_chakra, max_chakra),
                      100, 100)
        /\ \A a \in DOMAIN jutsu_costs \cup {Unregistered} :
             \A t \in now .. MaxTime :
               /\ get_cooldown_remaining(cooldowns, a, t) = 0
               /\ (a \in DOMAIN jutsu_costs /\ jutsu_costs[a] <= max_chakra
                     => use_jutsu(current_chakra, cooldowns, a, t, t).ret)

\* C7: reset() has run on a pool below max_chakra with cooldown entries
C7_Witness ==
    /\ ev.op = "reset"
    /\ ev.pre_level < max_chakra
    /\ ev.pre_count > 0

\* C18: in the activation attempt of process_gesture nothing runs between
\* can_use_jutsu and use_jutsu, so with the non-decreasing clock use_jutsu
\* never returns false after can_use_jutsu has returned true
C18_CheckThenSpend == (ev.op = "attempt" /\ ev.can) => ev.ret

\* C18: can_use_jutsu has returned true exactly at the end time of the
\* cooldown and use_jutsu, reading the clock later, has then succeeded
C18_Witness ==
    /\ ev.op = "attempt"
    /\ ev.can
    /\ ev.ret
    /\ ev.pre_end = <<ev.t_check>>
    /\ ev.t_set > ev.t_check

\* C19: get_cooldown_remaining(a) read at time t returns max(0,
\* cooldowns[a] - t), and 0 when a has no entry (an unknown or never-used
\* action); it is > 0 exactly when the cooldown makes can_use_jutsu(a) at t
\* false whatever the chakra level, so an entry whose end is <= t counts as
\* expired in both lookups; and the entry of every action activated since
\* the last reset is still in the table
C19_CooldownRemaining ==
    /\ ev.op = "get_cooldown_remaining" =>
           /\ ev.remaining = IF ev.pre_end = None THEN 0
                             ELSE Max(0, ev.pre_end[1] - ev.t_check)
           /\ ev.remaining > 0 <=>
                  /\ ev.name \in DOMAIN jutsu_costs
                  /\ ~can_use_jutsu(jutsu_costs[ev.name], cooldowns, ev.name,
                                    ev.t_check)
    /\ DOMAIN cooldowns = DOMAIN activated_at

\* C19: get_cooldown_remaining has returned 0 for an entry that is still in
\* the table after its end time
C19_Witness ==
    /\ ev.op = "get_cooldown_remaining"
    /\ ev.remaining = 0
    /\ ev.name \in DOMAIN cooldowns
    /\ cooldowns[ev.name] < ev.t_check

-----------------------------------------------------------------------------
(* Claims about regeneration over time, checked under RegenLiveSpec *)

\* the last call was an activation that succeeded
JustSpent == ev.op = "use_jutsu" /\ ev.ret

\* the level is max_chakra, so every action with cost <= max_chakra is
\* affordable: can_use_jutsu is true for it from the end of its cooldown on
FullAndAffordable ==
    /\ current_chakra = max_chakra
    /\ \A a \in DOMAIN jutsu_costs :
          jutsu_costs[a] <= max_chakra =>
              can_use_jutsu(current_chakra, cooldowns, a,
                            IF a \in DOMAIN cooldowns
                            THEN Max(now, cooldowns[a]) ELSE now)

\* C22: with regen_rate > 0 and regenerate() called on and on, if from some
\* point on no activation succeeds then from some point on current_chakra is
\* max_chakra for good, and every action with cost <= max_chakra is then
\* affordable once its cooldown has expired
C22_RegeneratesToMax ==
    (regen_rate > 0) => (<>[]~JustSpent => <>[]FullAndAffordable)

\* C22: after an activation, regenerate() has brought the level back to
\* max_chakra and the action, its cooldown expired, can be used again
C22_Witness ==
    /\ ev.op = "regenerate"
    /\ regen_rate > 0
    /\ ev.pre_level < max_chakra
    /\ current_chakra = max_chakra
    /\ \E a \in DOMAIN cooldowns :
          /\ cooldowns[a] <= now
          /\ can_use_jutsu(current_chakra, cooldowns, a, now)

-----------------------------------------------------------------------------
(* Claims about the hold-to-activate logic, checked under Spec *)

\* a label that names a gesture: not None, not "Unknown"
IsLabel(g) == g # NoGesture /\ g # "Unknown"

\* C8: a tick confirms the label it is given (attempts the activation) if
\* and only if the label is the held one and the time process_gesture reads
\* minus gesture_start_time is >= gesture_hold_duration; so the held label is
\* confirmed on the first such tick and never on a tick where it has been
\* held for less
C8_ConfirmAtThreshold ==
    [][ev'.op = "tick" =>
         LET reached ==
                 /\ IsLabel(ev'.name)
                 /\ ev'.name = last_gesture
                 /\ gesture_start_time # None
                 /\ ev'.t_pg - gesture_start_time[1] >= gesture_hold_duration
         IN ev'.confirmed <=> reached]_vars

\* C8: a label has been confirmed on the tick where its hold was exactly
\* gesture_hold_duration long
C8_Witness ==
    /\ ev.op = "tick"
    /\ ev.confirmed
    /\ switch_time = <<ev.t_pg - gesture_hold_duration>>

\* C9 as claimed: a tick on which the classifier reports no hand (None) or
\* "Unknown" leaves the hold state Idle (no held label, no start time) and
\* confirms nothing, so that a label is confirmed only when every tick for
\* at least gesture_hold_duration has reported it
C9_NoHandResetsHold ==
    /\ (ev.op = "tick" /\ ~IsLabel(ev.name)) =>
           /\ last_gesture = NoGesture
           /\ gesture_start_time = None
           /\ ~ev.confirmed
    /\ (ev.op = "tick" /\ ev.confirmed) =>
           /\ obs_label = ev.name
           /\ ev.t_pg - obs_since >= gesture_hold_duration

\* C10: a tick given a label different from the held one confirms nothing
\* and makes it the held label with the hold timer started at the time read
\* on that tick; a label is confirmed only when gesture_hold_duration has
\* passed since the last such switch
C10_SwitchRestartsTimer ==
    [][ev'.op = "tick" =>
         /\ (IsLabel(ev'.name) /\ ev'.name # last_gesture) =>
                /\ ~ev'.confirmed
                /\ last_gesture' = ev'.name
                /\ gesture_start_time' = <<ev'.t_pg>>
                /\ switch_time' = <<ev'.t_pg>>
         /\ ev'.confirmed =>
                /\ switch_time' # None
                /\ ev'.t_pg - switch_time'[1] >= gesture_hold_duration]_vars

\* C10: the label has changed while a hold shorter than the threshold was
\* running, and the timer has been restarted for the new label
C10_Witness ==
    /\ ev.op = "tick"
    /\ ev.early
    /\ last_gesture = ev.name
    /\ gesture_start_time = <<ev.t_pg>>

\* C11: after a label has been confirmed, no tick confirms it again (attempts
\* its activation) as long as every unpaused tick since the confirmation has
\* observed that label, however long it stays held
C11_ConfirmedOnceWhileHeld ==
    [][(ev'.op = "tick" /\ cycle.phase = "confirmed"
          /\ ev'.name = cycle.label) => ~ev'.confirmed]_vars

\* C11: a confirmed label has been observed on every tick since and, a full
\* gesture_hold_duration after its confirmation, a tick has found it still
\* held without confirming it
C11_Witness ==
    /\ ev.op = "tick"
    /\ ~ev.confirmed
    /\ cycle.phase = "confirmed"
    /\ ev.name = cycle.label
    /\ prev_time - cycle.since >= gesture_hold_duration

\* C12 as claimed: after a confirmation, once the gesture has been released
\* (one or more ticks with no hand or with "Unknown") and the same label has
\* been observed again on every tick, a tick that starts
\* gesture_hold_duration or more after the first of these ticks ended does
\* not leave the label unconfirmed
C12_ReapplyConfirms ==
    (ev.op = "tick" /\ cycle.phase = "reapplied") =>
        prev_time - cycle.since < gesture_hold_duration

\* C13 as claimed: in every reachable state gesture_start_time is set if and
\* only if last_gesture is set
C13_StartIffHeld ==
    (gesture_start_time # None) <=> (last_gesture # NoGesture)

\* C13: gesture_start_time is set only when last_gesture is a label;
\* last_gesture is set without a start time only after that label has been
\* confirmed and before any tick has processed another label or "Unknown";
\* a confirmation clears gesture_start_time and keeps last_gesture
C13_StartOnlyWithHeld ==
    /\ gesture_start_time # None => IsLabel(last_gesture)
    /\ (last_gesture # NoGesture /\ gesture_start_time = None) =>
           (cycle.phase # "none" /\ cycle.label = last_gesture)
    /\ (ev.op = "tick" /\ ev.confirmed) =>
           (gesture_start_time = None /\ last_gesture = ev.name)

\* C13: a label has been confirmed and is still the held label, with no
\* start time, after a later tick with no hand
C13_Witness ==
    /\ ev.op = "tick"
    /\ ev.name = NoGesture
    /\ cycle.phase = "released"
    /\ last_gesture = cycle.label
    /\ gesture_start_time = None

\* C14: a tick on which the held label reaches the threshold clears the hold
\* timer whether or not the activation succeeded; a failed activation leaves
\* the cooldowns table unchanged and the chakra level changed by nothing but
\* the tick's own regeneration; and as long as the same label stays held the
\* following ticks do not attempt the activation again
C14_FailedConfirmationNotRetried ==
    [][ev'.op = "tick" =>
         /\ ev'.confirmed => gesture_start_time' = None
         /\ (ev'.confirmed /\ ~ev'.activated /\ ev'.key # "r") =>
                /\ cooldowns' = cooldowns
                /\ current_chakra' =
                       regenerate(current_chakra, max_chakra, regen_rate)
         /\ (cycle.phase = "confirmed" /\ ~cycle.ok
               /\ ev'.name = cycle.label) =>
                /\ ~ev'.confirmed
                /\ gesture_start_time' = None]_vars

\* C14: an activation has failed at the threshold (the cooldown was active)
\* and a later tick has found the same label still held without trying again
C14_Witness ==
    /\ ev.op = "tick"
    /\ ~ev.confirmed
    /\ ev.name = cycle.label
    /\ cycle.phase = "confirmed"
    /\ ~cycle.ok
    /\ cycle.label \in DOMAIN cooldowns
    /\ now < cooldowns[cycle.label]

-----------------------------------------------------------------------------
(* Claims about the main loop, checked under Spec *)

\* the chakra the activation of a tick spent, given the tick's history e
Spent(e) == IF e.activated THEN jutsu_costs[e.name] ELSE 0

\* C15 as claimed: every tick of the main loop, paused or not, runs
\* regenerate() exactly once after its activation attempt: unless the reset
\* key is read at its end, the tick leaves the level at min(max_chakra,
\* level - what the activation spent + regen_rate)
C15_EveryTickRegenerates ==
    [][((ev'.op = "tick" \/ ev'.op = "paused_tick") /\ ev'.key # "r") =>
         current_chakra' =
             Min(max_chakra, current_chakra - Spent(ev') + regen_rate)]_vars

\* C15: every tick with paused false runs regenerate() exactly once, after
\* its gesture update and activation attempt and before its key poll (the
\* level it leaves is min(max_chakra, level - what the activation spent +
\* regen_rate), or max_chakra when the reset key is read); a tick with
\* paused true runs no regeneration
C15_UnpausedTickRegenerates ==
    [][/\ ev'.op = "tick" =>
            current_chakra' =
                IF ev'.key = "r" THEN max_chakra
                ELSE Min(max_chakra, current_chakra - Spent(ev') + regen_rate)
       /\ ev'.op = "paused_tick" =>
            current_chakra' =
                IF ev'.key = "r" THEN max_chakra ELSE current_chakra]_vars

\* C15: a tick has spent the cost of an action from a full pool and then
\* regenerated
C15_Witness ==
    /\ ev.op = "tick"
    /\ ev.activated
    /\ ev.key # "r"
    /\ current_chakra = max_chakra - jutsu_costs[ev.name] + regen_rate

\* C16 as claimed: however the loop of run() has ended (the quit key, a
\* failed frame read, an exception raised inside a tick), cleanup() has
\* released the capture device and the tracking session
C16_LoopEndReleases == pc # "running" => released

\* C17: a tick appends an effect to active_effects if and only if it
\* confirmed the held label and use_jutsu returned true for it: a tick that
\* spent chakra leaves the effects it kept followed by exactly one new
\* effect, named after the action and started between the spend and the end
\* of the tick; every other tick leaves only effects it already had; and
\* jutsu_map has an entry for every action that has a cost
C17_EffectIffSpend ==
    [][/\ ev'.op = "tick" =>
            LET kept == update_effects(active_effects, now') IN
            IF ev'.activated
            THEN /\ ev'.confirmed
                 /\ current_chakra # current_chakra' \/ ev'.key = "r"
                 /\ Len(active_effects') = Len(kept) + 1
                 /\ SubSeq(active_effects', 1, Len(kept)) = kept
                 /\ LET e == active_effects'[Len(active_effects')] IN
                      /\ e.name = activate_jutsu(<<>>, ev'.name, 0).name
                      /\ e.name # NoGesture
                      /\ last_jutsu' = e.name
                      /\ ev'.t_set <= e.start_time
                      /\ e.start_time <= now'
            ELSE active_effects' = kept
       /\ ev'.op = "paused_tick" => active_effects' = active_effects
       /\ DOMAIN jutsu_costs \subseteq DOMAIN jutsu_map]_vars

\* C17: a tick has spent chakra for a second action and appended its effect
\* behind the effect of the first
C17_Witness ==
    /\ ev.op = "tick"
    /\ ev.activated
    /\ Len(active_effects) = 2
    /\ active_effects[2].name = jutsu_map[ev.name]
    /\ active_effects[1].name # active_effects[2].name

\* C21: a tick made while the application is paused leaves the hold state
\* (last_gesture, gesture_start_time), last_jutsu and the list of active
\* effects as they are; it leaves the chakra level and the cooldowns table
\* as they are unless it reads the reset key, which sets the level to
\* max_chakra and empties the table; it toggles paused exactly on the pause
\* key and ends the loop exactly on the quit key; and the clock has moved on
\* meanwhile, so that no cooldown has more time remaining than before the
\* tick
C21_PausedTickFreezes ==
    [][ev'.op = "paused_tick" =>
         /\ paused
         /\ last_gesture' = last_gesture
         /\ gesture_start_time' = gesture_start_time
         /\ last_jutsu' = last_jutsu
         /\ active_effects' = active_effects
         /\ ~ev'.confirmed /\ ~ev'.activated
         /\ IF ev'.key = "r"
            THEN current_chakra' = max_chakra /\ cooldowns' = EmptyDict
            ELSE current_chakra' = current_chakra /\ cooldowns' = cooldowns
         /\ paused' = IF ev'.key = "p" THEN FALSE ELSE TRUE
         /\ (pc' = "done") = (ev'.key = "q")
         /\ prev_time' > prev_time
         /\ now' >= now
         /\ \A a \in DOMAIN jutsu_costs :
                get_cooldown_remaining(cooldowns', a, now')
                    <= get_cooldown_remaining(cooldowns, a, now)]_vars

\* C21: a paused tick has left the level below max_chakra as it was, while a
\* cooldown is running and a pending hold has passed gesture_hold_duration
\* on the clock
C21_Witness ==
    /\ ev.op = "paused_tick"
    /\ ev.key # "r"
    /\ current_chakra < max_chakra
    /\ \E a \in DOMAIN cooldowns : now < cooldowns[a]
    /\ gesture_start_time # None
    /\ now - gesture_start_time[1] >= gesture_hold_duration

-----------------------------------------------------------------------------
(* Claims about the effect list, checked under EngineLiveSpec *)

\* an effect of the given name and start time is in the list
InEffects(name, start) ==
    \E i \in 1 .. Len(active_effects) :
        active_effects[i] = [name |-> name, start_time |-> start]

\* the names of the effects the model activates
EffectNames == {jutsu_map["Fist"], jutsu_map["Point"]}

\* C20: an update_effects call at time t keeps (and renders) exactly the
\* effects with t - start_time <= effect_duration, in their order, and
\* removes the others, each effect by its own start time; and when the calls
\* keep occurring every effect is eventually removed (stated for the
\* effects whose expiry the clock of the model can reach)
C20_EffectsExpire ==
    /\ [][ev'.op = "update_effects" =>
             /\ active_effects' =
                    SelectSeq(active_effects,
                              LAMBDA e : ev'.t_check - e.start_time
                                             <= effect_duration)
             /\ \A i \in 1 .. Len(active_effects') :
                    ev'.t_check - active_effects'[i].start_time
                        <= effect_duration]_vars
    /\ \A name \in EffectNames :
          \A start \in Epoch .. MaxTime - effect_duration - 1 :
             InEffects(name, start) ~> ~InEffects(name, start)

\* C20: one update_effects call has removed an effect whose elapsed time
\* had passed effect_duration and kept a later one whose elapsed time was
\* exactly effect_duration
C20_Witness ==
    /\ ev.op = "update_effects"
    /\ ev.pre_count = 2
    /\ Len(active_effects) = 1
    /\ ev.t_check - active_effects[1].start_time = effect_duration

====
